---------------------------- MODULE Spec2Model ----------------------------
(***************************************************************************)
(* Verification model of the bittorrent client: the peer handshake of      *)
(* `Commands::Handshake` (src/src/main.rs), the two fixed-record byte      *)
(* string codecs (src/src/hashes.rs, src/src/tracker.rs), the              *)
(* deserialisation of the info dictionary (`Info` / `Keys`, main.rs) and   *)
(* `Torrent::info_hash` (main.rs).                                         *)
(***************************************************************************)
EXTENDS Integers, Sequences, FiniteSets, TLC

VARIABLES
    pc,          \* position of `main` in the Handshake arm
    conn,        \* the TcpStream `peer`: "none", "open" or "closed"
    info_hash,   \* t.info_hash(): the 20 bytes sent as content identifier
    handshake,   \* the memory of `handshake`, viewed as handshake_bytes
    wire_out,    \* every byte written to the stream so far
    reply,       \* the bytes the remote sends (<<>>: not decided yet)
    nread,       \* bytes of the reply read_exact has stored so far
    outcome,     \* how `main` ends: None, Ok, Err(context) or Panic(assert)
    stdout,      \* what println! wrote: the characters of the peer id line
    buf,         \* the byte string handed to a visitor's visit_bytes
    hashes_res,  \* result of HashVisitor::visit_bytes(buf)
    peers_res,   \* result of PeersVisitor::visit_bytes(buf)
    hashes_enc,  \* the byte string Hashes::serialize builds from hashes_res
    peers_enc,   \* the byte string Peers::serialize builds from peers_res
    hashes_re,   \* result of HashVisitor::visit_bytes on hashes_enc
    peers_re,    \* result of PeersVisitor::visit_bytes on peers_enc
    info_in,     \* the decoded info dictionary handed to Info's Deserialize
    info_res,    \* result of deserialising Info
    torrent,     \* two Torrent values, compared through info_hash
    ident        \* per torrent: what info_hash digested and returned

hsvars == <<pc, conn, info_hash, handshake, wire_out, reply, nread, outcome, stdout>>
decvars == <<buf, hashes_res, peers_res, hashes_enc, peers_enc, hashes_re, peers_re>>
infovars == <<info_in, info_res>>
idvars == <<torrent, ident>>
vars == <<hsvars, decvars, infovars, idvars>>

-----------------------------------------------------------------------------
(* Bounds of the model *)

\* an altered reply byte is the valid byte plus 1..MaxDelta (mod 256)
MaxDelta == 1
\* one read() or write() moves 1..MaxChunk bytes, or all that is left
MaxChunk == 2
\* longest byte string handed to a visitor
MaxBufLen == 42

-----------------------------------------------------------------------------
(* Bytes and helpers *)

Zeros(n) == [i \in 1..n |-> 0]

\* b"BitTorrent protocol"
BitTorrentProtocol ==
    <<66, 105, 116, 84, 111, 114, 114, 101, 110, 116, 32,
      112, 114, 111, 116, 111, 99, 111, 108>>

\* *b"00112233445566778899"
LocalPeerId ==
    <<48, 48, 49, 49, 50, 50, 51, 51, 52, 52, 53, 53, 54, 54, 55, 55, 56, 56, 57, 57>>

-----------------------------------------------------------------------------
(* HandShake: the repr(C) record behind handshake_bytes *)

\* HandShake::new(info_hash, peer_id), as the bytes of the record in memory
HandShake_new(ih, pid) ==
    <<19>> \o BitTorrentProtocol \o Zeros(8) \o ih \o pid

\* std::mem::size_of::<HandShake>()
SizeOfHandShake == 1 + 19 + 8 + 20 + 20

\* the fields of the record, read through its memory
HandShake_length(h) == h[1]
HandShake_bittorrent(h) == SubSeq(h, 2, 20)
HandShake_reserved(h) == SubSeq(h, 21, 28)
HandShake_info_hash(h) == SubSeq(h, 29, 48)
HandShake_peer_id(h) == SubSeq(h, 49, 68)

-----------------------------------------------------------------------------
(* hex::encode *)

HexChars == <<"0", "1", "2", "3", "4", "5", "6", "7",
              "8", "9", "a", "b", "c", "d", "e", "f">>

hex_encode(bytes) ==
    [i \in 1..(2 * Len(bytes)) |->
        IF i % 2 = 1
        THEN HexChars[(bytes[(i + 1) \div 2] \div 16) + 1]
        ELSE HexChars[(bytes[i \div 2] % 16) + 1]]

-----------------------------------------------------------------------------
(* Outcomes of main *)

None == [kind |-> "None", what |-> "", cause |-> ""]
OkUnit == [kind |-> "Ok", what |-> "", cause |-> ""]
Err(context, cause) == [kind |-> "Err", what |-> context, cause |-> cause]
Panic(assertion) == [kind |-> "Panic", what |-> assertion, cause |-> ""]

(* Result<T, E> of a deserialisation; Pending: not run yet *)
Pending == [tag |-> "Pending", val |-> <<>>, msg |-> <<>>]
Ok(v) == [tag |-> "Ok", val |-> v, msg |-> <<>>]
Error(m) == [tag |-> "Err", val |-> <<>>, msg |-> m]

-----------------------------------------------------------------------------
(* Fixed-record byte strings: Hashes and Peers *)

\* width of one piece hash
HashLen == 20
\* width of one compact peer
PeerLen == 6

\* <[u8]>::chunks_exact(n): the whole chunks, a shorter tail left out
chunks_exact(v, n) ==
    [i \in 1..(Len(v) \div n) |-> SubSeq(v, (i - 1) * n + 1, i * n)]

\* faulty variant: no length check, chunks_exact drops the tail silently
HashVisitor_visit_bytes_unchecked(v) == Ok(chunks_exact(v, HashLen))

\* HashVisitor::visit_bytes
HashVisitor_visit_bytes(v) ==
    IF Len(v) % HashLen # 0
    THEN Error(<<"length is: ", Len(v)>>)
    ELSE Ok(chunks_exact(v, HashLen))

\* faulty variant: the port read little-endian
u16_from_le_bytes(hi, lo) == (lo * 256 + hi) % 65536

\* u16::from_be_bytes([hi, lo])
u16_from_be_bytes(hi, lo) == (hi * 256 + lo) % 65536

\* SocketAddrV4::new(Ipv4Addr::new(a, b, c, d), port)
SocketAddrV4_new(a, b, c, d, port) == [ip |-> <<a, b, c, d>>, port |-> port]

\* the closure mapped over the chunks in PeersVisitor::visit_bytes
PeerOfSlice(slice_6) ==
    SocketAddrV4_new(slice_6[1], slice_6[2], slice_6[3], slice_6[4],
                     u16_from_be_bytes(slice_6[5], slice_6[6]))

\* PeersVisitor::visit_bytes
PeersVisitor_visit_bytes(v) ==
    IF Len(v) % PeerLen # 0
    THEN Error(<<"length is: ", Len(v)>>)
    ELSE LET chunks == chunks_exact(v, PeerLen)
         IN  Ok([i \in 1..Len(chunks) |-> PeerOfSlice(chunks[i])])


\* <[[u8; 20]]>::concat, Vec::extend: the records one after the other
RECURSIVE Concat(_)
Concat(recs) == IF recs = <<>> THEN <<>> ELSE Head(recs) \o Concat(Tail(recs))

\* Hashes::serialize: the byte string handed to serialize_bytes
Hashes_serialize(hashes) == Concat(hashes)

\* u16::to_be_bytes
u16_to_be_bytes(port) == <<port \div 256, port % 256>>

\* faulty variant: the port written little-endian
Peers_serialize_le(peers) ==
    Concat([i \in 1..Len(peers) |->
               peers[i].ip \o <<peers[i].port % 256, peers[i].port \div 256>>])

\* Peers::serialize: the byte string handed to serialize_bytes
Peers_serialize(peers) ==
    Concat([i \in 1..Len(peers) |-> peers[i].ip \o u16_to_be_bytes(peers[i].port)])

-----------------------------------------------------------------------------
(* Inputs of the handshake: the torrent's identifier and the remote's reply *)

\* values t.info_hash() may return (a SHA-1 digest: any 20 bytes)
InfoHashes ==
    { [i \in 1..20 |-> (7 * i + 3) % 256],
      [i \in 1..20 |-> (250 + i) % 256] }

\* peer ids a remote may announce: any 20 bytes, zeros included
RemotePeerIds ==
    { [i \in 1..20 |-> (45 + 11 * i) % 256],
      Zeros(20) }

\* how many bytes one read() or write() may move when `left` are missing
ChunkSizes(left) == { n \in 1..left : n <= MaxChunk \/ n = left }

Alter(s, k, d) == [s EXCEPT ![k] = (@ + d) % 256]

\* what a remote may send back: a well-formed handshake echoing ih, the same
\* with one byte altered anywhere, and with both the magic and the identifier
\* altered
Replies(ih) ==
    LET good == { HandShake_new(ih, pid) : pid \in RemotePeerIds }
    IN  good
        \cup { Alter(g, k, d) : g \in good, k \in 1..SizeOfHandShake, d \in 1..MaxDelta }
        \cup { Alter(Alter(g, k, d), 29, d) : g \in good, k \in {1, 2}, d \in 1..MaxDelta }

-----------------------------------------------------------------------------
(* Commands::Handshake *)

\* peer.parse::<SocketAddrV4>().context("parse peer address")?
ParsePeerFail ==
    /\ pc = "start"
    /\ outcome' = Err("parse peer address", "AddrParseError")
    /\ pc' = "done"
    /\ UNCHANGED <<conn, info_hash, handshake, wire_out, reply, nread, stdout, decvars, infovars, idvars>>

\* TcpStream::connect(peer).await.context("connect to peer")? fails
ConnectFail ==
    /\ pc = "start"
    /\ outcome' = Err("connect to peer", "ConnectionRefused")
    /\ pc' = "done"
    /\ UNCHANGED <<conn, info_hash, handshake, wire_out, reply, nread, stdout, decvars, infovars, idvars>>

\* the connection is made and HandShake::new builds the message
Connect ==
    /\ pc = "start"
    /\ conn' = "open"
    /\ handshake' = HandShake_new(info_hash, LocalPeerId)
    /\ pc' = "write"
    /\ UNCHANGED <<info_hash, wire_out, reply, nread, outcome, stdout, decvars, infovars, idvars>>

\* the remote decides what it sends on the connection
PeerSend ==
    /\ conn = "open"
    /\ pc \in {"write", "read"}
    /\ reply = <<>>
    /\ \E r \in Replies(info_hash) : reply' = r
    /\ UNCHANGED <<pc, conn, info_hash, handshake, wire_out, nread, outcome, stdout, decvars, infovars, idvars>>

\* faulty variant: write() in place of write_all(), so a short write is
\* taken for the whole message
WriteChunk_single ==
    /\ pc = "write"
    /\ \E n \in ChunkSizes(SizeOfHandShake - Len(wire_out)) :
          wire_out' = wire_out \o SubSeq(handshake, Len(wire_out) + 1, Len(wire_out) + n)
    /\ pc' = "read"
    /\ UNCHANGED <<conn, info_hash, handshake, reply, nread, outcome, stdout, decvars, infovars, idvars>>

\* peer.write_all(handshake_bytes): one write() of the loop takes n bytes
WriteChunk ==
    /\ pc = "write"
    /\ \E n \in ChunkSizes(SizeOfHandShake - Len(wire_out)) :
          /\ wire_out' = wire_out \o SubSeq(handshake, Len(wire_out) + 1, Len(wire_out) + n)
          /\ pc' = IF Len(wire_out) + n = SizeOfHandShake THEN "read" ELSE "write"
    /\ UNCHANGED <<conn, info_hash, handshake, reply, nread, outcome, stdout, decvars, infovars, idvars>>

\* write_all fails: .context("write handshake")? returns from main
WriteFail ==
    /\ pc = "write"
    /\ outcome' = Err("write handshake", "BrokenPipe")
    /\ pc' = "exit"
    /\ UNCHANGED <<conn, info_hash, handshake, wire_out, reply, nread, stdout, decvars, infovars, idvars>>

\* peer.read_exact(handshake_bytes): one read() of the loop stores n bytes
ReadChunk ==
    /\ pc = "read"
    /\ reply # <<>>
    /\ \E n \in ChunkSizes(SizeOfHandShake - nread) :
          /\ handshake' = SubSeq(reply, 1, nread + n)
                            \o SubSeq(handshake, nread + n + 1, SizeOfHandShake)
          /\ nread' = nread + n
          /\ pc' = IF nread + n = SizeOfHandShake THEN "assert_length" ELSE "read"
    /\ UNCHANGED <<conn, info_hash, wire_out, reply, outcome, stdout, decvars, infovars, idvars>>

\* faulty variant: read() in place of read_exact(), so the end of the stream
\* is taken for a complete reply
ReadFail_proceed ==
    /\ pc = "read"
    /\ nread < SizeOfHandShake
    /\ pc' = "assert_length"
    /\ UNCHANGED <<conn, info_hash, handshake, wire_out, reply, nread, outcome, stdout, decvars, infovars, idvars>>

\* the stream ends (read() returns 0) or fails before 68 bytes arrived:
\* read_exact returns an error and .context("read handshake")? returns
ReadFail ==
    /\ pc = "read"
    /\ nread < SizeOfHandShake
    /\ \E cause \in {"UnexpectedEof", "ConnectionReset"} :
          outcome' = Err("read handshake", cause)
    /\ pc' = "exit"
    /\ UNCHANGED <<conn, info_hash, handshake, wire_out, reply, nread, stdout, decvars, infovars, idvars>>

\* assert_eq!(handshake.length, 19)
AssertLength ==
    /\ pc = "assert_length"
    /\ IF HandShake_length(handshake) = 19
       THEN /\ pc' = "assert_bittorrent"
            /\ UNCHANGED outcome
       ELSE /\ outcome' = Panic("handshake.length == 19")
            /\ pc' = "exit"
    /\ UNCHANGED <<conn, info_hash, handshake, wire_out, reply, nread, stdout, decvars, infovars, idvars>>

\* assert_eq!(&handshake.bittorrent, b"BitTorrent protocol")
AssertBittorrent ==
    /\ pc = "assert_bittorrent"
    /\ IF HandShake_bittorrent(handshake) = BitTorrentProtocol
       THEN /\ pc' = "print"
            /\ UNCHANGED outcome
       ELSE /\ outcome' = Panic("handshake.bittorrent == BitTorrent protocol")
            /\ pc' = "exit"
    /\ UNCHANGED <<conn, info_hash, handshake, wire_out, reply, nread, stdout, decvars, infovars, idvars>>

\* faulty variant: the wrong field of the record is printed
PrintPeerId_info_hash ==
    /\ pc = "print"
    /\ stdout' = hex_encode(HandShake_info_hash(handshake))
    /\ outcome' = OkUnit
    /\ pc' = "exit"
    /\ UNCHANGED <<conn, info_hash, handshake, wire_out, reply, nread, decvars, infovars, idvars>>

\* println!("Peer ID: {}", hex::encode(&handshake.peer_id)); then Ok(())
PrintPeerId ==
    /\ pc = "print"
    /\ stdout' = hex_encode(HandShake_peer_id(handshake))
    /\ outcome' = OkUnit
    /\ pc' = "exit"
    /\ UNCHANGED <<conn, info_hash, handshake, wire_out, reply, nread, decvars, infovars, idvars>>

\* faulty variant: the stream is leaked (std::mem::forget) instead of dropped
DropPeer_leak ==
    /\ pc = "exit"
    /\ pc' = "done"
    /\ UNCHANGED <<conn, info_hash, handshake, wire_out, reply, nread, outcome, stdout, decvars, infovars, idvars>>

\* leaving main (return or unwinding) drops `peer`, which closes the socket
DropPeer ==
    /\ pc = "exit"
    /\ conn' = "closed"
    /\ pc' = "done"
    /\ UNCHANGED <<info_hash, handshake, wire_out, reply, nread, outcome, stdout, decvars, infovars, idvars>>

HsInit ==
    /\ pc = "start"
    /\ conn = "none"
    /\ info_hash \in InfoHashes
    /\ handshake = <<>>
    /\ wire_out = <<>>
    /\ reply = <<>>
    /\ nread = 0
    /\ outcome = None
    /\ stdout = <<>>

HsIdle ==
    /\ pc = "idle"
    /\ conn = "none"
    /\ info_hash = <<>>
    /\ handshake = <<>>
    /\ wire_out = <<>>
    /\ reply = <<>>
    /\ nread = 0
    /\ outcome = None
    /\ stdout = <<>>

DecIdle ==
    /\ buf = <<>>
    /\ hashes_res = Pending
    /\ peers_res = Pending
    /\ hashes_enc = Pending
    /\ peers_enc = Pending
    /\ hashes_re = Pending
    /\ peers_re = Pending

InfoIdle ==
    /\ info_in = <<>>
    /\ info_res = Pending

IdIdle ==
    /\ torrent = <<>>
    /\ ident = <<>>

Init ==
    /\ HsInit
    /\ DecIdle
    /\ InfoIdle
    /\ IdIdle

Next ==
    \/ ParsePeerFail
    \/ ConnectFail
    \/ Connect
    \/ PeerSend
    \/ WriteChunk
    \/ WriteFail
    \/ ReadChunk
    \/ ReadFail
    \/ AssertLength
    \/ AssertBittorrent
    \/ PrintPeerId
    \/ DropPeer

Spec == Init /\ [][Next]_vars

\* main runs to completion once its I/O has returned: the steps that do not
\* wait for the remote are taken
LiveSpec ==
    /\ Spec
    /\ WF_vars(AssertLength)
    /\ WF_vars(AssertBittorrent)
    /\ WF_vars(PrintPeerId)
    /\ WF_vars(DropPeer)

-----------------------------------------------------------------------------
(* Deserialising the two fixed-record byte strings *)

\* the compact peer 127.0.0.1:6881
KnownPeerBytes == <<127, 0, 0, 1, 26, 225>>

\* byte strings a torrent file or a tracker may hold: a repeated base record
\* cut at every length up to MaxBufLen
BaseRecords ==
    { KnownPeerBytes,
      <<192, 168, 1, 255, 255, 255>>,
      <<10, 0, 0, 2, 0, 80, 1>> }

Cycle(base, n) == [i \in 1..n |-> base[((i - 1) % Len(base)) + 1]]

Inputs == { Cycle(base, n) : base \in BaseRecords, n \in 0..MaxBufLen }

\* <Hashes as Deserialize>::deserialize on the byte string
HashesDeserialize ==
    /\ hashes_res = Pending
    /\ hashes_res' = HashVisitor_visit_bytes(buf)
    /\ UNCHANGED <<buf, peers_res, hashes_enc, peers_enc, hashes_re, peers_re, hsvars, infovars, idvars>>

\* <Peers as Deserialize>::deserialize on the byte string
PeersDeserialize ==
    /\ peers_res = Pending
    /\ peers_res' = PeersVisitor_visit_bytes(buf)
    /\ UNCHANGED <<buf, hashes_res, hashes_enc, peers_enc, hashes_re, peers_re, hsvars, infovars, idvars>>

DecInit ==
    /\ HsIdle
    /\ InfoIdle
    /\ IdIdle
    /\ buf \in Inputs
    /\ hashes_res = Pending
    /\ peers_res = Pending
    /\ hashes_enc = Pending
    /\ peers_enc = Pending
    /\ hashes_re = Pending
    /\ peers_re = Pending

\* <Hashes as Serialize>::serialize on the decoded hashes
HashesSerialize ==
    /\ hashes_res.tag = "Ok"
    /\ hashes_enc = Pending
    /\ hashes_enc' = Ok(Hashes_serialize(hashes_res.val))
    /\ UNCHANGED <<buf, hashes_res, peers_res, peers_enc, hashes_re, peers_re, hsvars, infovars, idvars>>

\* <Peers as Serialize>::serialize on the decoded peers
PeersSerialize ==
    /\ peers_res.tag = "Ok"
    /\ peers_enc = Pending
    /\ peers_enc' = Ok(Peers_serialize(peers_res.val))
    /\ UNCHANGED <<buf, hashes_res, peers_res, hashes_enc, hashes_re, peers_re, hsvars, infovars, idvars>>

\* <Hashes as Deserialize>::deserialize on the serialized byte string
HashesReDeserialize ==
    /\ hashes_enc.tag = "Ok"
    /\ hashes_re = Pending
    /\ hashes_re' = HashVisitor_visit_bytes(hashes_enc.val)
    /\ UNCHANGED <<buf, hashes_res, peers_res, hashes_enc, peers_enc, peers_re, hsvars, infovars, idvars>>

\* <Peers as Deserialize>::deserialize on the serialized byte string
PeersReDeserialize ==
    /\ peers_enc.tag = "Ok"
    /\ peers_re = Pending
    /\ peers_re' = PeersVisitor_visit_bytes(peers_enc.val)
    /\ UNCHANGED <<buf, hashes_res, peers_res, hashes_enc, peers_enc, hashes_re, hsvars, infovars, idvars>>

DecNext ==
    \/ HashesDeserialize
    \/ PeersDeserialize
    \/ HashesSerialize
    \/ PeersSerialize
    \/ HashesReDeserialize
    \/ PeersReDeserialize

DecodeSpec == DecInit /\ [][DecNext]_vars

-----------------------------------------------------------------------------
(* Deserialising the info dictionary: Info with its flattened Keys *)

\* bencode values as a deserialiser presents them; Absent: the key is missing
Absent == [t |-> "absent", n |-> 0, b |-> <<>>, items |-> <<>>]
BInt(n) == [t |-> "int", n |-> n, b |-> <<>>, items |-> <<>>]
BBytes(b) == [t |-> "bytes", n |-> 0, b |-> b, items |-> <<>>]
BList(items) == [t |-> "list", n |-> 0, b |-> <<>>, items |-> items]
\* an entry of `files`: a dictionary with the keys length and path (a list of
\* byte strings)
BFile(len, path) == [length |-> len, path |-> path]

\* usize from a bencode value: a non-negative integer
IsUsize(x) == x.t = "int" /\ x.n >= 0

\* String from a bencode value: a byte string (the inputs here are UTF-8)
IsString(x) == x.t = "bytes"

\* File { length: usize, path: Vec<String> }
IsFile(f) == IsUsize(f.length)

\* Vec<File>
IsFileList(x) == x.t = "list" /\ \A i \in 1..Len(x.items) : IsFile(x.items[i])

\* #[serde(untagged)] enum Keys: the variants are tried in declaration order
\* against the keys left over by #[serde(flatten)]; a variant takes the field
\* it names and ignores every other key
Keys_deserialize(d) ==
    IF IsUsize(d.length)
    THEN Ok([variant |-> "SingleFile", length |-> d.length.n, files |-> <<>>])
    ELSE IF IsFileList(d.files)
         THEN Ok([variant |-> "MultiFile", length |-> 0, files |-> d.files.items])
         ELSE Error(<<"data did not match any variant of untagged enum Keys">>)

\* Hashes from a bencode value: deserialize_bytes, then the visitor
Hashes_deserialize(x) ==
    IF x.t = "bytes"
    THEN HashVisitor_visit_bytes(x.b)
    ELSE Error(<<"invalid type, expected ", "a byte string whos length is multiple of 20">>)

\* #[derive(Deserialize)] for Info: the named fields are read as they come
\* (bencode order: name, piece length, pieces), missing ones are reported,
\* then the flattened `key` is built from the remaining keys
Info_deserialize(d) ==
    LET pieces == Hashes_deserialize(d.pieces)
        key == Keys_deserialize(d)
    IN  IF d.name # Absent /\ ~IsString(d.name)
        THEN Error(<<"invalid type", "name">>)
        ELSE IF d.piece_length # Absent /\ ~IsUsize(d.piece_length)
        THEN Error(<<"invalid type", "piece length">>)
        ELSE IF d.pieces # Absent /\ pieces.tag = "Err"
        THEN pieces
        ELSE IF d.name = Absent
        THEN Error(<<"missing field", "name">>)
        ELSE IF d.piece_length = Absent
        THEN Error(<<"missing field", "piece length">>)
        ELSE IF d.pieces = Absent
        THEN Error(<<"missing field", "pieces">>)
        ELSE IF key.tag = "Err"
        THEN key
        ELSE Ok([name |-> d.name.b, plength |-> d.piece_length.n,
                 pieces |-> pieces.val, key |-> key.val])

\* info dictionaries a torrent file may hold
NameValues == { Absent, BBytes(<<97>>), BInt(1) }
PieceLengthValues == { Absent, BInt(1), BInt(-1), BBytes(<<49>>) }
PiecesValues == { Absent, BBytes(<<>>), BBytes(Zeros(HashLen)),
                  BBytes(Zeros(HashLen + 1)), BInt(0) }
LengthValues == { Absent, BInt(0), BInt(5), BInt(-1), BBytes(<<53>>) }
FilesValues ==
    { Absent,
      BList(<<>>),
      BList(<<BFile(BInt(5), <<<<97>>>>)>>),
      BList(<<BFile(BBytes(<<53>>), <<<<97>>>>)>>),
      BInt(0) }

InfoDicts ==
    [name : NameValues, piece_length : PieceLengthValues, pieces : PiecesValues,
     length : LengthValues, files : FilesValues]

\* serde_bencode::from_bytes reaches <Info as Deserialize>::deserialize
InfoDeserialize ==
    /\ info_res = Pending
    /\ info_res' = Info_deserialize(info_in)
    /\ UNCHANGED <<info_in, hsvars, decvars, idvars>>

InfoInit ==
    /\ HsIdle
    /\ DecIdle
    /\ IdIdle
    /\ info_in \in InfoDicts
    /\ info_res = Pending

InfoNext == InfoDeserialize

InfoSpec == InfoInit /\ [][InfoNext]_vars

-----------------------------------------------------------------------------
(* Torrent::info_hash: the info section re-encoded and digested *)

\* most piece hashes in a torrent of the model
MaxPieces == 1

\* a usize in decimal ASCII digits, as the bencode serialiser writes it
RECURSIVE Decimal(_)
Decimal(n) == IF n < 10 THEN <<48 + n>> ELSE Decimal(n \div 10) \o <<48 + (n % 10)>>

\* serialize_u64: i<digits>e
bencode_int(n) == <<105>> \o Decimal(n) \o <<101>>

\* serialize_bytes / serialize_str: <length>:<bytes>
bencode_bytes(b) == Decimal(Len(b)) \o <<58>> \o b

\* serialize_seq: l<items>e
bencode_list(items) == <<108>> \o Concat(items) \o <<101>>

\* raw byte order of two dictionary keys
RECURSIVE BytesLess(_, _)
BytesLess(a, b) ==
    IF b = <<>> THEN FALSE
    ELSE IF a = <<>> THEN TRUE
    ELSE IF Head(a) # Head(b) THEN Head(a) < Head(b)
    ELSE BytesLess(Tail(a), Tail(b))

\* the entries of a dictionary in ascending key order
RECURSIVE SortEntries(_)
SortEntries(entries) ==
    IF entries = {} THEN <<>>
    ELSE LET first == CHOOSE x \in entries :
                          \A y \in entries : y = x \/ BytesLess(x.k, y.k)
         IN  <<first>> \o SortEntries(entries \ {first})

\* serialize_map / serialize_struct: d<key><value>...e, the keys sorted
bencode_dict(entries) ==
    LET sorted == SortEntries(entries)
    IN  <<100>> \o Concat([i \in 1..Len(sorted) |->
                              bencode_bytes(sorted[i].k) \o sorted[i].v]) \o <<101>>

Entry(key, value) == [k |-> key, v |-> value]

KeyAnnounce == <<97, 110, 110, 111, 117, 110, 99, 101>>
KeyInfo == <<105, 110, 102, 111>>
KeyName == <<110, 97, 109, 101>>
KeyPieceLength == <<112, 105, 101, 99, 101, 32, 108, 101, 110, 103, 116, 104>>
KeyPieces == <<112, 105, 101, 99, 101, 115>>
KeyLength == <<108, 101, 110, 103, 116, 104>>
KeyFiles == <<102, 105, 108, 101, 115>>
KeyPath == <<112, 97, 116, 104>>

\* #[derive(Serialize)] for File
File_serialize(f) ==
    bencode_dict({ Entry(KeyLength, bencode_int(f.length)),
                   Entry(KeyPath, bencode_list([i \in 1..Len(f.path) |->
                                                   bencode_bytes(f.path[i])])) })

\* #[derive(Serialize)] for the untagged Keys, flattened into Info's map
Keys_entries(key) ==
    IF key.variant = "SingleFile"
    THEN { Entry(KeyLength, bencode_int(key.length)) }
    ELSE { Entry(KeyFiles, bencode_list([i \in 1..Len(key.files) |->
                                            File_serialize(key.files[i])])) }

\* #[derive(Serialize)] for Info
Info_serialize(info) ==
    bencode_dict({ Entry(KeyName, bencode_bytes(info.name)),
                   Entry(KeyPieceLength, bencode_int(info.plength)),
                   Entry(KeyPieces, bencode_bytes(Hashes_serialize(info.pieces))) }
                 \cup Keys_entries(info.key))

\* #[derive(Serialize)] for Torrent
Torrent_serialize(t) ==
    bencode_dict({ Entry(KeyAnnounce, bencode_bytes(t.announce)),
                   Entry(KeyInfo, Info_serialize(t.info)) })

\* Sha1: the digest is kept symbolic, as the digest of the bytes it was fed
Sha1_digest(bytes) == [sha1_of |-> bytes]

\* faulty variant: the whole torrent is re-encoded, not the info section
Torrent_info_encode_whole(t) == Torrent_serialize(t)

\* serde_bencode::to_bytes(&self.info): the bytes given to hasher.update
Torrent_info_encode(t) == Info_serialize(t.info)

\* Torrent::info_hash
Torrent_info_hash(t) == Sha1_digest(Torrent_info_encode(t))

\* torrents of the model
SingleFile(n) == [variant |-> "SingleFile", length |-> n, files |-> <<>>]
MultiFile(fs) == [variant |-> "MultiFile", length |-> 0, files |-> fs]

PieceHash(seed) == [i \in 1..HashLen |-> (seed * 37 + i) % 256]

PiecesChoices ==
    { [i \in 1..n |-> PieceHash(seed + i)] : n \in 0..MaxPieces, seed \in {0, 100} }

NameChoices == { <<>>, <<97>>, <<97, 49>> }

KeysChoices ==
    { SingleFile(0), SingleFile(1), SingleFile(10),
      MultiFile(<<>>),
      MultiFile(<<[length |-> 1, path |-> <<<<97>>>>]>>),
      MultiFile(<<[length |-> 1, path |-> <<<<97>>, <<49>>>>]>>) }

Infos ==
    [name : NameChoices, plength : {1, 16}, pieces : PiecesChoices, key : KeysChoices]

AnnounceChoices == { <<104>>, <<104, 50>> }

\* the first torrent is any torrent of the model; the second is the first, or
\* the first with its announce, name, piece length, pieces or layout changed
Variants(t) ==
    {t}
    \cup { [t EXCEPT !.announce = a] : a \in AnnounceChoices }
    \cup { [t EXCEPT !.info.name = x] : x \in NameChoices }
    \cup { [t EXCEPT !.info.plength = x] : x \in {1, 16} }
    \cup { [t EXCEPT !.info.pieces = x] : x \in PiecesChoices }
    \cup { [t EXCEPT !.info.key = x] : x \in KeysChoices }

\* t.info_hash() on one of the two torrents
InfoHash(i) ==
    /\ ident[i] = Pending
    /\ ident' = [ident EXCEPT ![i] = Ok([digested |-> Torrent_info_encode(torrent[i]),
                                         id |-> Torrent_info_hash(torrent[i])])]
    /\ UNCHANGED <<torrent, hsvars, decvars, infovars>>

InfoHashCall == \E i \in 1..2 : InfoHash(i)

IdInit ==
    /\ HsIdle
    /\ DecIdle
    /\ InfoIdle
    /\ \E t \in [announce : AnnounceChoices, info : Infos] :
          \E u \in Variants(t) : torrent = <<t, u>>
    /\ ident = <<Pending, Pending>>

IdNext == InfoHashCall

IdSpec == IdInit /\ [][IdNext]_vars

-----------------------------------------------------------------------------
(* Properties of the handshake *)

Terminal == {"exit", "done"}

\* the inverse of hex::encode on lower-case digits
HexVal(c) == CHOOSE i \in 0..15 : HexChars[i + 1] = c
HexDecode(chars) ==
    [i \in 1..(Len(chars) \div 2) |-> 16 * HexVal(chars[2 * i - 1]) + HexVal(chars[2 * i])]

\* C1: the handshake succeeds and reports a peer id only if reply bytes
\* [28..48) equal the content identifier that was sent.
C1_VerifiedOnlyIfIdentifierEchoed ==
    outcome.kind = "Ok" => SubSeq(reply, 29, 48) = info_hash

\* C2: the handshake is write-then-read: a byte of the reply is read only
\* once exactly the 68 bytes of the local message are on the stream, and
\* nothing more is written once they are.
C2_WriteThenRead ==
    [][/\ nread' # nread =>
            /\ wire_out = HandShake_new(info_hash, LocalPeerId)
            /\ Len(wire_out) = 68
       /\ Len(wire_out) = 68 => wire_out' = wire_out
       /\ Len(wire_out') <= 68]_vars

C2_Witness == nread = 68 /\ Len(wire_out) = 68 /\ pc = "assert_length"

\* C3: a stream that ends before 68 bytes of the reply arrived ends the
\* handshake in the read error: no validation runs, no peer id is printed,
\* and the outcome differs from that of a full reply failing validation
\* (which is a panic of an assertion, reached only with all 68 bytes read).
C3_TruncatedReply ==
    /\ outcome = Err("read handshake", "UnexpectedEof") =>
          /\ nread < 68
          /\ stdout = <<>>
          /\ pc \in Terminal
    /\ (pc \in Terminal /\ Len(wire_out) = 68 /\ nread < 68) =>
          /\ outcome.kind = "Err"
          /\ outcome.what = "read handshake"
          /\ stdout = <<>>
    /\ pc \in {"assert_length", "assert_bittorrent", "print"} => nread = 68
    /\ outcome.kind \in {"Panic", "Ok"} => nread = 68

C3_Witness ==
    /\ outcome = Err("read handshake", "UnexpectedEof")
    /\ nread = 67
    /\ pc = "done"

\* C4: a peer id is printed only for a reply whose byte [0] is 19 and whose
\* bytes [1..20) are "BitTorrent protocol"; what is printed is reply bytes
\* [48..68), whatever they are, and every full reply with that magic gets
\* its peer id printed.
C4_PeerIdReported ==
    /\ outcome.kind = "Ok" =>
          /\ reply[1] = 19
          /\ SubSeq(reply, 2, 20) = BitTorrentProtocol
          /\ Len(stdout) = 40
          /\ HexDecode(stdout) = SubSeq(reply, 49, 68)
    /\ outcome.kind # "Ok" => stdout = <<>>
    /\ (pc \in Terminal /\ nread = 68 /\ reply[1] = 19
            /\ SubSeq(reply, 2, 20) = BitTorrentProtocol) =>
          outcome.kind = "Ok"

C4_Witness ==
    /\ outcome.kind = "Ok"
    /\ SubSeq(reply, 49, 68) = Zeros(20)
    /\ stdout = [i \in 1..40 |-> "0"]

\* C5: the connection is closed on every path out of main: no run is done
\* with the connection open, and once the I/O has returned (after success,
\* a failed write, a truncated read or a failed assertion) the connection
\* is eventually closed.
C5_ConnectionClosed ==
    /\ [](pc = "done" => conn # "open")
    /\ (conn = "open" /\ pc \notin {"write", "read"}) ~> (conn = "closed")

C5_Witness ==
    /\ pc = "done"
    /\ conn = "closed"
    /\ outcome.kind = "Panic"

-----------------------------------------------------------------------------
(* Properties of the fixed-record visitors *)

FixedRecordDecode(res, n) ==
    res # Pending =>
        /\ Len(buf) % n # 0 => res.tag = "Err" /\ res.val = <<>>
        /\ Len(buf) % n = 0 => res.tag = "Ok" /\ Len(res.val) * n = Len(buf)
        /\ Len(buf) = 0 => res.val = <<>>

\* C6: decoding at width 20 (piece hashes) and 6 (compact peers) fails for
\* every length that is not a multiple of the width, returns exactly k
\* records for length k times the width (for hashes: the k slices, whose
\* concatenation is the input), and the empty sequence for length 0.
C6_FixedRecordLength ==
    /\ FixedRecordDecode(hashes_res, 20)
    /\ FixedRecordDecode(peers_res, 6)
    /\ hashes_res.tag = "Ok" =>
          /\ \A i \in 1..Len(hashes_res.val) : Len(hashes_res.val[i]) = 20
          /\ Concat(hashes_res.val) = buf

C6_Witness ==
    /\ Len(buf) = 40
    /\ hashes_res.tag = "Ok"
    /\ Len(hashes_res.val) = 2
    /\ peers_res.tag = "Err"

\* C7: each 6-byte record b0..b5 decodes, in input order, to the peer with
\* address b0.b1.b2.b3 and port b4*256 + b5; [127,0,0,1,0x1A,0xE1] decodes
\* to exactly the one peer 127.0.0.1:6881.
C7_CompactPeers ==
    peers_res.tag = "Ok" =>
        /\ Len(peers_res.val) = Len(buf) \div 6
        /\ \A i \in 1..Len(peers_res.val) :
              LET o == 6 * (i - 1)
              IN  /\ peers_res.val[i].ip = <<buf[o + 1], buf[o + 2], buf[o + 3], buf[o + 4]>>
                  /\ peers_res.val[i].port = buf[o + 5] * 256 + buf[o + 6]
        /\ buf = <<127, 0, 0, 1, 26, 225>> =>
              peers_res.val = <<[ip |-> <<127, 0, 0, 1>>, port |-> 6881]>>

C7_Witness ==
    /\ buf = <<127, 0, 0, 1, 26, 225>>
    /\ peers_res.tag = "Ok"
    /\ Len(peers_res.val) = 1

-----------------------------------------------------------------------------
(* Properties of the info dictionary *)

\* C8: an info dictionary is accepted only when exactly one of the keys
\* `length` and `files` is present.
C8_ExactlyOneLayout ==
    info_res.tag = "Ok" => ((info_in.length # Absent) # (info_in.files # Absent))

\* C10: serialising is concatenation in order and inverts decoding: for a
\* byte string b of a whole number of records the bytes serialised from
\* decode(b) are b; decoding what was serialised from records r gives r
\* again; the serialised length is the width times the number of records,
\* zero for no records.
C10_FixedRecordRoundTrip ==
    /\ hashes_enc.tag = "Ok" =>
          /\ hashes_enc.val = buf
          /\ Len(hashes_enc.val) = 20 * Len(hashes_res.val)
          /\ hashes_res.val = <<>> => hashes_enc.val = <<>>
    /\ peers_enc.tag = "Ok" =>
          /\ peers_enc.val = buf
          /\ Len(peers_enc.val) = 6 * Len(peers_res.val)
          /\ peers_res.val = <<>> => peers_enc.val = <<>>
    /\ hashes_re # Pending => hashes_re = hashes_res
    /\ peers_re # Pending => peers_re = peers_res

C10_Witness ==
    /\ Len(buf) = 12
    /\ buf[5] # buf[6]
    /\ peers_enc = Ok(buf)
    /\ peers_re.tag = "Ok"
    /\ Len(peers_re.val) = 2

-----------------------------------------------------------------------------
(* Properties of the content identifier *)

\* d6:lengthi0e4:name0:12:piece lengthi1e6:pieces0:e
KnownInfoEncoding ==
    <<100, 54, 58, 108, 101, 110, 103, 116, 104, 105, 48, 101,
      52, 58, 110, 97, 109, 101, 48, 58,
      49, 50, 58, 112, 105, 101, 99, 101, 32, 108, 101, 110, 103, 116, 104, 105, 49, 101,
      54, 58, 112, 105, 101, 99, 101, 115, 48, 58, 101>>

BothHashed == ident[1].tag = "Ok" /\ ident[2].tag = "Ok"

\* C9: the identifier depends on the info dictionary alone: two torrents
\* with equal info get the same identifier whatever their announce URLs,
\* and two torrents whose info differs in pieces, piece length, name or
\* layout have different re-encoded bytes digested.
C9_IdentifierOfInfoAlone ==
    BothHashed =>
        /\ torrent[1].info = torrent[2].info =>
              /\ ident[1].val.id = ident[2].val.id
              /\ ident[1].val.digested = ident[2].val.digested
        /\ torrent[1].info # torrent[2].info =>
              ident[1].val.digested # ident[2].val.digested

C9_Witness ==
    /\ BothHashed
    /\ torrent[1].info = torrent[2].info
    /\ torrent[1].announce # torrent[2].announce
    /\ ident[1].val.digested = KnownInfoEncoding
    /\ ident[2].val.id = Sha1_digest(KnownInfoEncoding)

=============================================================================
